---------------------------- MODULE Spec2Model ----------------------------
(***************************************************************************)
(* A model of the window capture tool (HookExe).                           *)
(*                                                                         *)
(*  - Spec    : one capture request against one window handle, from        *)
(*              ProcessCaptureApp.capture_process_window (main.py) or      *)
(*              directly from ScreenshotEngine.capture_window, through the *)
(*              capture strategies (screenshot_engine.py) and the two      *)
(*              activation tiers (process_manager.py), one action per      *)
(*              step between OS calls.  The window's owner may close or    *)
(*              resize the window between any two steps.                   *)
(*  - RectSpec: one capture request against a window that stays as it is,  *)
(*              for every rect the rect query can report.                  *)
(*  - AppSpec : the threads of the application: the UI thread running the  *)
(*              button / double-click handlers, and the auto-capture loop  *)
(*              threads created by start_auto_capture (main.py).           *)
(*              FairAppSpec adds that every live loop thread is scheduled. *)
(*                                                                         *)
(* An Optional[Image] is a sequence: <<>> is None, <<b>> is the bitmap b.  *)
(***************************************************************************)
EXTENDS Integers, Sequences, FiniteSets, TLC

VARIABLES
    \* ---- the target window, as the OS holds it
    winExists,      \* IsWindow(hwnd)
    iconic,         \* IsIconic(hwnd)
    foreground,     \* the target window has been made the foreground window
    winRect,        \* GetWindowRect(hwnd)
    attached,       \* the caller's input queue is attached to the target's thread
    \* ---- one capture request
    pc,             \* position of the request
    entry,          \* "app": capture_process_window, "engine": capture_window
    method,         \* the method selector
    pm,             \* capture_window was given a process_manager
    rect,           \* capture_window's local rect (Optional)
    fbRect,         \* capture_window_with_fallback's local rect (Optional)
    screenshot,     \* the strategy's local screenshot (Optional)
    cwResult,       \* what capture_window returned (Optional)
    cpwResult,      \* what capture_process_window returned: "pending", "True", "False"
    \* ---- history of the request
    log,            \* the events of the request, in order
    bgShot,         \* the bitmap the handle capture of the Background strategy produced
    basicShot,      \* the bitmap captured after basic activation in the chain
    forcedShot,     \* the bitmap captured after forced activation in the chain
    nAttach,        \* AttachThreadInput(.., True) calls that succeeded
    nDetach,        \* AttachThreadInput(.., False) calls that succeeded
    wasIconic,      \* the window was minimized when the request began
    envSteps,       \* changes the window's owner has made during the request
    actRect,        \* the window's rect when the chain's latest activation returned True
    \* ---- the application's threads (AppSpec)
    is_auto_capturing,    \* ProcessCaptureApp.is_auto_capturing
    auto_capture_thread,  \* ProcessCaptureApp.auto_capture_thread: 0 is None
    uiPc,                 \* what the UI thread is executing
    ui_is_capturing,      \* ProcessCaptureUI.is_capturing (and the buttons' states)
    tpc,                  \* position of each auto-capture loop thread
    remaining,            \* sleep increments left in a loop thread's wait
    stopPending,          \* stop_auto_capture cleared the flag while the loop thread
                          \* was waiting, and the flag has not been set again
    success,              \* auto_capture_loop's local `success` of each loop thread,
                          \* "unset" before its first assignment and after the thread ends
    \* ---- single calls of the engine's and the process manager's functions (UnitSpec)
    unit,           \* the function that is called: "none" outside UnitSpec
    iwv_answers,    \* what the calls of is_window_valid returned for the window as it is
    img_array,      \* is_black_image's img_array: the channel values of all pixels
    threshold,      \* is_black_image's argument threshold
    is_black,       \* what is_black_image returned: "unset", "True", "False"
    ibi_error,      \* is_black_image's except clause ran in its latest call
    selection_index,  \* start_auto_capture's selection_index: -1 is None
    sac_result,     \* what start_auto_capture returned: "unset", "True", "False"
    cwh_pc,         \* position inside one call of capture_window_by_handle
    held,           \* OS resources that call acquired and has not released
    cwh_result      \* what that call returned: "unset", "image", "None"

winVars == <<winExists, iconic, foreground, winRect, attached>>
reqVars == <<pc, entry, method, pm, rect, fbRect, screenshot, cwResult, cpwResult>>
histVars == <<log, bgShot, basicShot, forcedShot, nAttach, nDetach, wasIconic, envSteps,
             actRect>>
appVars == <<is_auto_capturing, auto_capture_thread, uiPc, ui_is_capturing, tpc, remaining,
            stopPending, success>>
reqAll == <<reqVars, histVars>>
cwhVars == <<cwh_pc, held, cwh_result>>
unitVars == <<unit, iwv_answers, img_array, threshold, is_black, ibi_error, selection_index,
             sac_result, cwhVars>>
vars == <<winVars, reqVars, histVars, appVars, unitVars>>

----------------------------------------------------------------------------
(* Bounds of the model *)

\* window sides range over 0..MaxDim
MaxDim == 2
\* changes (close, resize) the window's owner makes during one request
MaxEnvSteps == 1
\* auto-capture loop threads start_auto_capture can create
MaxThreads == 2
\* the capture interval ranges over 1..MaxInterval seconds
MaxInterval == 2
\* in RectSpec the four coordinates of the window's rect range over 0..MaxCoord
MaxCoord == 2
\* in UnitSpec a bitmap has 1..MaxPixels channel values
MaxPixels == 3
\* in UnitSpec, calls of is_window_valid made in a row on one window
MaxCalls == 2
\* in UnitSpec, len(self.cached_processes)
MaxCached == 1

----------------------------------------------------------------------------
(* Values *)

None == <<>>
Some(x) == <<x>>

\* is_black_image's default threshold
BlackThreshold == 10

\* mean luminance of a captured bitmap: all zero, just below and at the threshold
Lums == {0, BlackThreshold - 1, BlackThreshold}

MkRect(l, t, r, b) == [left |-> l, top |-> t, right |-> r, bottom |-> b]

\* the geometries the window can have; side 0 is a zero-area window
Rects == {MkRect(0, 0, d, d) : d \in 0..MaxDim}

\* every rect GetWindowRect can report with coordinates in 0..MaxCoord: also
\* rects with only one side empty, and with right < left or bottom < top
AllRects == {MkRect(l, t, r, b) : l \in 0..MaxCoord, t \in 0..MaxCoord,
                                  r \in 0..MaxCoord, b \in 0..MaxCoord}

UiMethods == {"standard", "handle", "auto", "background", "smart"}
Methods == UiMethods \cup {"unknown"}

\* win32api.GetCurrentThreadId() of the thread running the request, and the
\* thread owning the target window (a window of another process)
Threads == 1..MaxThreads
Intervals == 1..MaxInterval

CurrentThread == "worker"
TargetThread == "target"


----------------------------------------------------------------------------
(* Pure helpers of the engine and of the process manager *)

\* faulty variant: the except clause answers True
IsWindowValid_RaiseMeansValid(raises) == IF raises THEN TRUE ELSE winExists

\* faulty variant: the validity check does not look at the window
IsWindowValid_AlwaysTrue(raises) == TRUE

\* ProcessManager.is_window_valid: bool(IsWindow(hwnd)), False when the query raises
IsWindowValid(raises) == IF raises THEN FALSE ELSE winExists

\* ScreenshotEngine.is_black_image with the default threshold: mean < threshold,
\* and False when the computation raises
IsBlackImage(image, raises) == IF raises THEN FALSE ELSE image.lum < BlackThreshold

\* faulty variant: the size check rejects a rect only when both sides are empty
SizeInvalid_BothSides(r) == r.right - r.left <= 0 /\ r.bottom - r.top <= 0

\* capture_window's size check: right - left <= 0 or bottom - top <= 0
SizeInvalid(r) == r.right - r.left <= 0 \/ r.bottom - r.top <= 0

\* ScreenshotEngine.capture_window_standard: ImageGrab.grab(bbox = rect); None
\* when the grab raises.  The region is the rect it is given.
CaptureWindowStandard(r, ok, lum) ==
    IF ok THEN Some([w |-> r.right - r.left, h |-> r.bottom - r.top, lum |-> lum])
          ELSE None

\* ScreenshotEngine.capture_window_by_handle: the bitmap has the size of the
\* window's rect as queried inside the strategy; None when an OS call raises
\* (always so for a closed window or a zero-area bitmap) or when BitBlt
\* reports failure.
CaptureWindowByHandle(ok, blt, lum) ==
    IF ~ok \/ ~winExists \/ SizeInvalid(winRect) THEN None
    ELSE IF ~blt THEN None
    ELSE Some([w |-> winRect.right - winRect.left,
               h |-> winRect.bottom - winRect.top, lum |-> lum])

\* ProcessManager.get_window_rect: GetWindowRect(hwnd), None when it raises
GetWindowRect(ok) == IF ok /\ winExists THEN Some(winRect) ELSE None

\* faulty variant: the skip of stage 1 forgets smart
NeedsActivation_OnlyBackground(m) == m \notin {"background"}

\* capture_process_window, stage 1: activate unless the method is background or smart
NeedsActivation(m) == m \notin {"background", "smart"}

\* faulty variant: the black check after basic activation is inverted
BasicCaptureInvalid_Inverted(shot, raises) == shot = None \/ ~IsBlackImage(shot[1], raises)

\* capture_window_with_fallback, after the capture that follows basic activation:
\* "if not screenshot or self.is_black_image(screenshot)"
BasicCaptureInvalid(shot, raises) == shot = None \/ IsBlackImage(shot[1], raises)

\* capture_window_background: "if screenshot and not self.is_black_image(screenshot)"
BackgroundValid(shot, raises) == shot # None /\ ~IsBlackImage(shot[1], raises)

\* where activation can raise: before anything changed ("restore": IsIconic or
\* ShowWindow), after the window was shown ("foreground": SetWindowPos or
\* SetForegroundWindow), or nowhere ("none")
FailPoints == {"restore", "foreground", "none"}

\* The effect on the window of the OS calls shared by both activation tiers:
\* IsIconic -> ShowWindow(SW_RESTORE), ShowWindow(SW_SHOW), SetForegroundWindow.
\* A closed window makes them fail without effect.
ShowAndForeground(failAt, r) ==
    /\ ~winExists => failAt # "none"
    /\ IF failAt = "restore" \/ ~winExists
         THEN UNCHANGED <<iconic, winRect, foreground>>
         ELSE /\ iconic' = FALSE
              /\ winRect' = (IF iconic THEN r ELSE winRect)
              /\ foreground' = (IF failAt = "none" THEN TRUE ELSE foreground)
    /\ UNCHANGED winExists

\* the verdict an is_black_image call logs
Verdict(black) == IF black THEN "black" ELSE "nonblack"
\* the outcome of the capture chain
Outcome(val) == IF val = None THEN "fail" ELSE "success"

Count(e) == Cardinality({i \in DOMAIN log : log[i] = e})

----------------------------------------------------------------------------
(* Spec: one capture request *)

ReqInit ==
    /\ winExists \in BOOLEAN
    /\ iconic \in BOOLEAN
    /\ foreground = FALSE
    /\ winRect \in Rects
    /\ attached = FALSE
    /\ pc = "idle"
    /\ entry = "app"
    /\ method = "standard"
    /\ pm = TRUE
    /\ rect = None
    /\ fbRect = None
    /\ screenshot = None
    /\ cwResult = None
    /\ cpwResult = "pending"
    /\ log = <<>>
    /\ bgShot = None
    /\ basicShot = None
    /\ forcedShot = None
    /\ nAttach = 0
    /\ nDetach = 0
    /\ wasIconic = FALSE
    /\ envSteps = 0
    /\ actRect = None

AppIdle ==
    /\ is_auto_capturing = FALSE
    /\ auto_capture_thread = 0
    /\ uiPc = "idle"
    /\ ui_is_capturing = FALSE
    /\ tpc = [t \in Threads |-> "unborn"]
    /\ remaining = [t \in Threads |-> 0]
    /\ stopPending = [t \in Threads |-> FALSE]
    /\ success = [t \in Threads |-> "unset"]

\* no single call has been made
UnitIdle ==
    /\ unit = "none"
    /\ iwv_answers = <<>>
    /\ img_array = <<>>
    /\ threshold = BlackThreshold
    /\ is_black = "unset"
    /\ ibi_error = FALSE
    /\ selection_index = -1
    /\ sac_result = "unset"
    /\ cwh_pc = "idle"
    /\ held = {}
    /\ cwh_result = "unset"

Init == ReqInit /\ AppIdle /\ UnitIdle

\* capture_window returns val
CWReturn(val) ==
    /\ cwResult' = val
    /\ pc' = IF entry = "app" THEN "cpw_result" ELSE "done"

\* ProcessCaptureApp.capture_process_window is called; the UI's method selector
\* holds one of the five radio-button values
CPW_Begin ==
    /\ pc = "idle"
    /\ \E m \in UiMethods : method' = m
    /\ entry' = "app"
    /\ pm' = TRUE
    /\ pc' = "cpw_valid"
    /\ wasIconic' = iconic
    /\ UNCHANGED <<winVars, rect, fbRect, screenshot, cwResult, cpwResult, log, bgShot, basicShot,
                   forcedShot, nAttach, nDetach, envSteps, actRect,
                   appVars, unitVars>>

\* ScreenshotEngine.capture_window is called directly, with any method string
\* and with or without a process manager
CW_Begin ==
    /\ pc = "idle"
    /\ \E m \in Methods : method' = m
    /\ \E b \in BOOLEAN : pm' = b
    /\ entry' = "engine"
    /\ pc' = "cw_rect"
    /\ wasIconic' = iconic
    /\ UNCHANGED <<winVars, rect, fbRect, screenshot, cwResult, cpwResult, log, bgShot, basicShot,
                   forcedShot, nAttach, nDetach, envSteps, actRect,
                   appVars, unitVars>>

\* capture_process_window: the validity check, then the choice whether to activate
CPW_CheckValid ==
    /\ pc = "cpw_valid"
    /\ \E raises \in BOOLEAN :
         IF ~IsWindowValid(raises)
           THEN /\ cpwResult' = "False"
                /\ pc' = "done"
                /\ log' = Append(log, "window_closed")
           ELSE /\ pc' = IF NeedsActivation(method) THEN "cpw_activate" ELSE "cw_rect"
                /\ UNCHANGED <<cpwResult, log>>
    /\ UNCHANGED <<winVars, entry, method, pm, rect, fbRect, screenshot, cwResult,
                   bgShot, basicShot, forcedShot, nAttach, nDetach, wasIconic, envSteps,
                   actRect, appVars, unitVars>>

\* capture_process_window: process_manager.activate_window(hwnd), result ignored
CPW_Activate ==
    /\ pc = "cpw_activate"
    /\ \E failAt \in FailPoints, r \in Rects : ShowAndForeground(failAt, r)
    /\ log' = Append(log, "activate")
    /\ pc' = "cw_rect"
    /\ UNCHANGED <<attached, entry, method, pm, rect, fbRect, screenshot, cwResult, cpwResult,
                   bgShot, basicShot, forcedShot, nAttach, nDetach, wasIconic, envSteps,
                   actRect, appVars, unitVars>>

\* faulty variant: the missing rect ends the request only for method standard,
\* the one strategy that is handed the rect
CW_Resolve_RectCheckedForStandardOnly ==
    /\ pc = "cw_rect"
    /\ \E ok \in BOOLEAN :
         LET got == GetWindowRect(ok) IN
         /\ rect' = got
         /\ IF (got = None /\ method = "standard") \/ (got # None /\ SizeInvalid(got[1]))
              THEN CWReturn(None) /\ log' = Append(log, "fail")
            ELSE IF method = "standard" THEN pc' = "std_grab" /\ UNCHANGED <<cwResult, log>>
            ELSE IF method = "handle" THEN pc' = "hnd_grab" /\ UNCHANGED <<cwResult, log>>
            ELSE IF method \in {"auto", "background", "smart"}
              THEN pc' = "bg_restore" /\ UNCHANGED <<cwResult, log>>
            ELSE CWReturn(None) /\ log' = Append(log, "fail")
    /\ UNCHANGED <<winVars, entry, method, pm, fbRect, screenshot, cpwResult,
                   bgShot, basicShot, forcedShot, nAttach, nDetach, wasIconic, envSteps,
                   actRect, appVars, unitVars>>

\* faulty variant: method handle is dispatched to the Background strategy
CW_Resolve_HandleViaBackground ==
    /\ pc = "cw_rect"
    /\ \E ok \in BOOLEAN :
         LET got == GetWindowRect(ok) IN
         /\ rect' = got
         /\ IF got = None \/ SizeInvalid(got[1])
              THEN CWReturn(None) /\ log' = Append(log, "fail")
            ELSE IF method = "standard" THEN pc' = "std_grab" /\ UNCHANGED <<cwResult, log>>
            ELSE IF method \in {"handle", "auto", "background", "smart"}
              THEN pc' = "bg_restore" /\ UNCHANGED <<cwResult, log>>
            ELSE CWReturn(None) /\ log' = Append(log, "fail")
    /\ UNCHANGED <<winVars, entry, method, pm, fbRect, screenshot, cpwResult,
                   bgShot, basicShot, forcedShot, nAttach, nDetach, wasIconic, envSteps,
                   actRect, appVars, unitVars>>

\* capture_window: resolve the rect, check its size, dispatch on the method
CW_Resolve ==
    /\ pc = "cw_rect"
    /\ \E ok \in BOOLEAN :
         LET got == GetWindowRect(ok) IN
         /\ rect' = got
         /\ IF got = None \/ SizeInvalid(got[1])
              THEN CWReturn(None) /\ log' = Append(log, "fail")
            ELSE IF method = "standard" THEN pc' = "std_grab" /\ UNCHANGED <<cwResult, log>>
            ELSE IF method = "handle" THEN pc' = "hnd_grab" /\ UNCHANGED <<cwResult, log>>
            ELSE IF method \in {"auto", "background", "smart"}
              THEN pc' = "bg_restore" /\ UNCHANGED <<cwResult, log>>
            ELSE CWReturn(None) /\ log' = Append(log, "fail")
    /\ UNCHANGED <<winVars, entry, method, pm, fbRect, screenshot, cpwResult,
                   bgShot, basicShot, forcedShot, nAttach, nDetach, wasIconic, envSteps,
                   actRect, appVars, unitVars>>

\* method standard: return self.capture_window_standard(rect)
STD_Grab ==
    /\ pc = "std_grab"
    /\ \E ok \in BOOLEAN, lum \in Lums :
         LET shot == CaptureWindowStandard(rect[1], ok, lum) IN
         /\ screenshot' = shot
         /\ CWReturn(shot)
         /\ log' = log \o <<"capture_standard", Outcome(shot)>>
    /\ UNCHANGED <<winVars, entry, method, pm, rect, fbRect, cpwResult,
                   bgShot, basicShot, forcedShot, nAttach, nDetach, wasIconic, envSteps,
                   actRect, appVars, unitVars>>

\* method handle: return self.capture_window_by_handle(hwnd)
HND_Grab ==
    /\ pc = "hnd_grab"
    /\ \E ok \in BOOLEAN, blt \in BOOLEAN, lum \in Lums :
         LET shot == CaptureWindowByHandle(ok, blt, lum) IN
         /\ screenshot' = shot
         /\ CWReturn(shot)
         /\ log' = log \o <<"capture_handle", Outcome(shot)>>
    /\ UNCHANGED <<winVars, entry, method, pm, rect, fbRect, cpwResult,
                   bgShot, basicShot, forcedShot, nAttach, nDetach, wasIconic, envSteps,
                   actRect, appVars, unitVars>>

\* capture_window_background: a minimized window is restored without activation
\* (SW_SHOWNOACTIVATE); an OS call that raises ends the strategy with None
BG_Restore ==
    /\ pc = "bg_restore"
    /\ \E ok \in BOOLEAN :
         IF ~ok
           THEN /\ screenshot' = None
                /\ pc' = "bg_return"
                /\ UNCHANGED <<iconic, winRect, log>>
           ELSE /\ pc' = "bg_grab"
                /\ UNCHANGED screenshot
                /\ IF iconic /\ winExists
                     THEN /\ iconic' = FALSE
                          /\ \E r \in Rects : winRect' = r
                          /\ log' = Append(log, "restore_noactivate")
                     ELSE UNCHANGED <<iconic, winRect, log>>
    /\ UNCHANGED <<winExists, foreground, attached, entry, method, pm, rect, fbRect,
                   cwResult, cpwResult, bgShot, basicShot, forcedShot, nAttach, nDetach,
                   wasIconic, envSteps, actRect, appVars, unitVars>>

\* capture_window_background: screenshot = self.capture_window_by_handle(hwnd)
BG_Grab ==
    /\ pc = "bg_grab"
    /\ \E ok \in BOOLEAN, blt \in BOOLEAN, lum \in Lums :
         LET shot == CaptureWindowByHandle(ok, blt, lum) IN
         /\ screenshot' = shot
         /\ bgShot' = shot
    /\ log' = Append(log, "capture_bg")
    /\ pc' = "bg_validate"
    /\ UNCHANGED <<winVars, entry, method, pm, rect, fbRect, cwResult, cpwResult,
                   basicShot, forcedShot, nAttach, nDetach, wasIconic, envSteps,
                   actRect, appVars, unitVars>>

\* capture_window_background: the bitmap is returned only if is_black_image
\* does not call it black; otherwise the strategy returns None
BG_Validate ==
    /\ pc = "bg_validate"
    /\ \E raises \in BOOLEAN :
         IF screenshot = None
           THEN /\ log' = Append(log, "missing")
                /\ UNCHANGED <<screenshot, ibi_error>>
           ELSE /\ log' = Append(log, Verdict(IsBlackImage(screenshot[1], raises)))
                /\ screenshot' = IF BackgroundValid(screenshot, raises) THEN screenshot ELSE None
                /\ ibi_error' = raises
    /\ pc' = "bg_return"
    /\ UNCHANGED <<winVars, entry, method, pm, rect, fbRect, cwResult, cpwResult,
                   bgShot, basicShot, forcedShot, nAttach, nDetach, wasIconic, envSteps,
                   actRect, appVars, unit, iwv_answers, img_array, threshold, is_black,
                   selection_index, sac_result, cwhVars>>

\* capture_window_background has returned `screenshot`:
\*  - method background: capture_window returns it;
\*  - capture_window_with_fallback (smart, auto): a bitmap is returned at once,
\*    None goes on to strategy 2 when a process manager was given
BG_Return ==
    /\ pc = "bg_return"
    /\ IF method = "background" \/ screenshot # None
         THEN CWReturn(screenshot) /\ log' = Append(log, Outcome(screenshot))
       ELSE IF pm THEN pc' = "fb_rect" /\ UNCHANGED <<cwResult, log>>
       ELSE pc' = "fb_return" /\ UNCHANGED <<cwResult, log>>
    /\ UNCHANGED <<winVars, entry, method, pm, rect, fbRect, screenshot, cpwResult,
                   bgShot, basicShot, forcedShot, nAttach, nDetach, wasIconic, envSteps,
                   actRect, appVars, unitVars>>

\* capture_window_with_fallback, strategy 2: rect = process_manager.get_window_rect(hwnd)
FB_Rect ==
    /\ pc = "fb_rect"
    /\ \E ok \in BOOLEAN :
         LET got == GetWindowRect(ok) IN
         /\ fbRect' = got
         /\ pc' = IF got = None THEN "fb_return" ELSE "fb_activate"
    /\ UNCHANGED <<winVars, entry, method, pm, rect, screenshot, cwResult, cpwResult,
                   histVars, appVars, unitVars>>

\* faulty variant: a failed basic activation escalates straight to forced activation
FB_Activate_EscalateOnFailure ==
    /\ pc = "fb_activate"
    /\ \E failAt \in FailPoints, r \in Rects :
         /\ ShowAndForeground(failAt, r)
         /\ pc' = IF failAt = "none" THEN "fb_grab1" ELSE "fa_attach"
         /\ actRect' = IF failAt = "none" THEN Some(winRect') ELSE actRect
    /\ log' = Append(log, "activate")
    /\ UNCHANGED <<attached, entry, method, pm, rect, fbRect, screenshot, cwResult, cpwResult,
                   bgShot, basicShot, forcedShot, nAttach, nDetach, wasIconic, envSteps,
                   appVars, unitVars>>

\* capture_window_with_fallback: "if process_manager.activate_window(hwnd)"; a
\* failed basic activation skips the capture and the forced activation
FB_Activate ==
    /\ pc = "fb_activate"
    /\ \E failAt \in FailPoints, r \in Rects :
         /\ ShowAndForeground(failAt, r)
         /\ pc' = IF failAt = "none" THEN "fb_grab1" ELSE "fb_return"
         /\ actRect' = IF failAt = "none" THEN Some(winRect') ELSE actRect
    /\ log' = Append(log, "activate")
    /\ UNCHANGED <<attached, entry, method, pm, rect, fbRect, screenshot, cwResult, cpwResult,
                   bgShot, basicShot, forcedShot, nAttach, nDetach, wasIconic, envSteps,
                   appVars, unitVars>>

\* capture_window_with_fallback: screenshot = self.capture_window_standard(rect)
FB_Grab1 ==
    /\ pc = "fb_grab1"
    /\ \E ok \in BOOLEAN, lum \in Lums :
         LET shot == CaptureWindowStandard(fbRect[1], ok, lum) IN
         /\ screenshot' = shot
         /\ basicShot' = shot
    /\ log' = Append(log, "capture_basic")
    /\ pc' = "fb_validate"
    /\ UNCHANGED <<winVars, entry, method, pm, rect, fbRect, cwResult, cpwResult,
                   bgShot, forcedShot, nAttach, nDetach, wasIconic, envSteps, actRect, appVars,
                   unitVars>>

\* capture_window_with_fallback: forced activation only when the capture after
\* basic activation is missing or black
FB_Validate ==
    /\ pc = "fb_validate"
    /\ \E raises \in BOOLEAN :
         /\ log' = Append(log, IF screenshot = None THEN "missing"
                               ELSE Verdict(IsBlackImage(screenshot[1], raises)))
         /\ pc' = IF BasicCaptureInvalid(screenshot, raises) THEN "fa_attach" ELSE "fb_return"
         /\ ibi_error' = IF screenshot = None THEN ibi_error ELSE raises
    /\ UNCHANGED <<winVars, entry, method, pm, rect, fbRect, screenshot, cwResult, cpwResult,
                   bgShot, basicShot, forcedShot, nAttach, nDetach, wasIconic, envSteps,
                   actRect, appVars, unit, iwv_answers, img_array, threshold, is_black,
                   selection_index, sac_result, cwhVars>>

\* force_activate_window: the thread ids are queried and, when they differ, the
\* caller's input queue is attached; an OS call that raises returns False
FA_Attach ==
    /\ pc = "fa_attach"
    /\ log' = Append(log, "force")
    /\ \E ok \in BOOLEAN :
         IF ~ok \/ ~winExists
           THEN pc' = "fb_return" /\ UNCHANGED <<attached, nAttach>>
           ELSE /\ pc' = "fa_raise"
                /\ IF CurrentThread # TargetThread
                     THEN attached' = TRUE /\ nAttach' = nAttach + 1
                     ELSE UNCHANGED <<attached, nAttach>>
    /\ UNCHANGED <<winExists, iconic, foreground, winRect, entry, method, pm, rect, fbRect,
                   screenshot, cwResult, cpwResult, bgShot, basicShot, forcedShot, nDetach,
                   wasIconic, envSteps, actRect, appVars, unitVars>>

\* force_activate_window: restore, show, SetWindowPos(HWND_TOP), SetForegroundWindow;
\* an OS call that raises goes to the except clause, which returns False
FA_Raise ==
    /\ pc = "fa_raise"
    /\ \E failAt \in FailPoints, r \in Rects :
         /\ ShowAndForeground(failAt, r)
         /\ pc' = IF failAt = "none" THEN "fa_detach" ELSE "fb_return"
    /\ UNCHANGED <<attached, entry, method, pm, rect, fbRect, screenshot, cwResult, cpwResult,
                   histVars, appVars, unitVars>>

\* faulty variant: force_activate_window returns True without detaching
FA_Detach_Skipped ==
    /\ pc = "fa_detach"
    /\ pc' = "fb_grab2"
    /\ actRect' = Some(winRect)
    /\ UNCHANGED <<winVars, entry, method, pm, rect, fbRect, screenshot, cwResult, cpwResult,
                   log, bgShot, basicShot, forcedShot, nAttach, nDetach, wasIconic, envSteps,
                   appVars, unitVars>>

\* force_activate_window: the input queue is detached when the thread ids
\* differ, then the settle delay, then True
FA_Detach ==
    /\ pc = "fa_detach"
    /\ \E ok \in BOOLEAN :
         IF CurrentThread # TargetThread
           THEN IF ok THEN /\ attached' = FALSE
                           /\ nDetach' = nDetach + 1
                           /\ pc' = "fb_grab2"
                      ELSE /\ pc' = "fb_return"
                           /\ UNCHANGED <<attached, nDetach>>
           ELSE pc' = "fb_grab2" /\ UNCHANGED <<attached, nDetach>>
    /\ actRect' = IF pc' = "fb_grab2" THEN Some(winRect) ELSE actRect
    /\ UNCHANGED <<winExists, iconic, foreground, winRect, entry, method, pm, rect, fbRect,
                   screenshot, cwResult, cpwResult, log, bgShot, basicShot, forcedShot,
                   nAttach, wasIconic, envSteps, appVars, unitVars>>

\* capture_window_with_fallback: after forced activation,
\* screenshot = self.capture_window_standard(rect)
FB_Grab2 ==
    /\ pc = "fb_grab2"
    /\ \E ok \in BOOLEAN, lum \in Lums :
         LET shot == CaptureWindowStandard(fbRect[1], ok, lum) IN
         /\ screenshot' = shot
         /\ forcedShot' = shot
    /\ log' = Append(log, "capture_forced")
    /\ pc' = "fb_return"
    /\ UNCHANGED <<winVars, entry, method, pm, rect, fbRect, cwResult, cpwResult,
                   bgShot, basicShot, nAttach, nDetach, wasIconic, envSteps, actRect, appVars,
                   unitVars>>

\* capture_window_with_fallback: "if screenshot: ... return screenshot"
FB_Return ==
    /\ pc = "fb_return"
    /\ CWReturn(screenshot)
    /\ log' = Append(log, Outcome(screenshot))
    /\ UNCHANGED <<winVars, entry, method, pm, rect, fbRect, screenshot, cpwResult,
                   bgShot, basicShot, forcedShot, nAttach, nDetach, wasIconic, envSteps,
                   actRect, appVars, unitVars>>

\* capture_process_window: None is a failure; a bitmap goes to recognition and
\* saving, which succeed or raise
CPW_Result ==
    /\ pc = "cpw_result"
    /\ IF cwResult = None
         THEN cpwResult' = "False"
         ELSE \E saved \in BOOLEAN : cpwResult' = IF saved THEN "True" ELSE "False"
    /\ pc' = "done"
    /\ UNCHANGED <<winVars, entry, method, pm, rect, fbRect, screenshot, cwResult,
                   histVars, appVars, unitVars>>

\* the window's owner closes the window while the request is running
CloseWindow ==
    /\ pc \notin {"idle", "done"}
    /\ envSteps < MaxEnvSteps
    /\ winExists
    /\ winExists' = FALSE
    /\ envSteps' = envSteps + 1
    /\ UNCHANGED <<iconic, foreground, winRect, attached, reqVars, log, bgShot, basicShot,
                   forcedShot, nAttach, nDetach, wasIconic, actRect,
                   appVars, unitVars>>

\* the window's owner moves or resizes the window while the request is running
ResizeWindow ==
    /\ pc \notin {"idle", "done"}
    /\ envSteps < MaxEnvSteps
    /\ winExists /\ ~iconic
    /\ \E r \in Rects \ {winRect} : winRect' = r
    /\ envSteps' = envSteps + 1
    /\ UNCHANGED <<winExists, iconic, foreground, attached, reqVars, log, bgShot, basicShot,
                   forcedShot, nAttach, nDetach, wasIconic, actRect,
                   appVars, unitVars>>

\* the window's owner minimizes the window while the request is running; a
\* minimized window reports the geometry of its icon
MinimizeWindow ==
    /\ pc \notin {"idle", "done"}
    /\ envSteps < MaxEnvSteps
    /\ winExists /\ ~iconic
    /\ iconic' = TRUE
    /\ \E r \in Rects : winRect' = r
    /\ envSteps' = envSteps + 1
    /\ UNCHANGED <<winExists, foreground, attached, reqVars, log, bgShot, basicShot,
                   forcedShot, nAttach, nDetach, wasIconic, actRect, appVars, unitVars>>

Next ==
    \/ CPW_Begin
    \/ CW_Begin
    \/ CPW_CheckValid
    \/ CPW_Activate
    \/ CW_Resolve
    \/ STD_Grab
    \/ HND_Grab
    \/ BG_Restore
    \/ BG_Grab
    \/ BG_Validate
    \/ BG_Return
    \/ FB_Rect
    \/ FB_Activate
    \/ FB_Grab1
    \/ FB_Validate
    \/ FA_Attach
    \/ FA_Raise
    \/ FA_Detach
    \/ FB_Grab2
    \/ FB_Return
    \/ CPW_Result
    \/ CloseWindow
    \/ ResizeWindow
    \/ MinimizeWindow

Spec == Init /\ [][Next]_vars

----------------------------------------------------------------------------
(* RectSpec: one capture request against a window that stays as it is, for   *)
(* every rect GetWindowRect can report.                                      *)

RectInit ==
    /\ winExists = TRUE
    /\ iconic = FALSE
    /\ foreground = FALSE
    /\ winRect \in AllRects
    /\ attached = FALSE
    /\ pc = "idle"
    /\ entry = "app"
    /\ method = "standard"
    /\ pm = TRUE
    /\ rect = None
    /\ fbRect = None
    /\ screenshot = None
    /\ cwResult = None
    /\ cpwResult = "pending"
    /\ log = <<>>
    /\ bgShot = None
    /\ basicShot = None
    /\ forcedShot = None
    /\ nAttach = 0
    /\ nDetach = 0
    /\ wasIconic = FALSE
    /\ envSteps = 0
    /\ actRect = None
    /\ AppIdle
    /\ UnitIdle

RectNext ==
    \/ CPW_Begin
    \/ CW_Begin
    \/ CPW_CheckValid
    \/ CPW_Activate
    \/ CW_Resolve
    \/ STD_Grab
    \/ HND_Grab
    \/ BG_Restore
    \/ BG_Grab
    \/ BG_Validate
    \/ BG_Return
    \/ FB_Rect
    \/ FB_Activate
    \/ FB_Grab1
    \/ FB_Validate
    \/ FA_Attach
    \/ FA_Raise
    \/ FA_Detach
    \/ FB_Grab2
    \/ FB_Return
    \/ CPW_Result

RectSpec == RectInit /\ [][RectNext]_vars

----------------------------------------------------------------------------
(* UnitSpec: single calls of is_black_image, of is_window_valid and of       *)
(* capture_window_by_handle, on arguments drawn from bounded sets.           *)

\* the values of a channel: zero, around the default threshold, and the maximum
Channels == {0, BlackThreshold - 1, BlackThreshold, BlackThreshold + 1, 255}

\* np.array(image), flattened: every channel value of every pixel
Images == UNION {[1..n -> Channels] : n \in 1..MaxPixels}

\* the thresholds is_black_image is called with; BlackThreshold is the default
Thresholds == {1, BlackThreshold, BlackThreshold + 1}

RECURSIVE SumSeq(_)
SumSeq(a) == IF a = <<>> THEN 0 ELSE a[1] + SumSeq(Tail(a))

\* the string a bool is recorded as
BoolStr(b) == IF b THEN "True" ELSE "False"

\* faulty variant: the comparison with the threshold is not strict
is_black_image_NotStrict(arr, thr, raises) ==
    IF raises THEN FALSE ELSE SumSeq(arr) <= thr * Len(arr)

\* ScreenshotEngine.is_black_image on the pixel data: avg_brightness =
\* np.mean(img_array), is_black = avg_brightness < threshold; False when the
\* computation raises.  sum / n < threshold is computed as sum < threshold * n.
is_black_image(arr, thr, raises) ==
    IF raises THEN FALSE ELSE SumSeq(arr) < thr * Len(arr)

\* the functions called on their own
Units == {"is_black_image", "is_window_valid", "start_auto_capture", "capture_window_by_handle"}

\* self.ui.get_selected_process_index(): None (-1), an index into
\* cached_processes, or an index beyond its end
Selections == -1..MaxCached

\* the states of the application start_auto_capture can be called in: nothing
\* started yet; a loop thread running; a loop thread that left through its
\* except clause; a loop thread stopped, ended or still in its last capture
SacInit ==
    /\ uiPc = "idle"
    /\ ui_is_capturing = FALSE
    /\ remaining = [t \in Threads |-> 0]
    /\ stopPending = [t \in Threads |-> FALSE]
    /\ success = [t \in Threads |-> "unset"]
    /\ \/ /\ is_auto_capturing = FALSE
          /\ auto_capture_thread = 0
          /\ tpc = [t \in Threads |-> "unborn"]
       \/ /\ is_auto_capturing \in BOOLEAN
          /\ auto_capture_thread = 1
          /\ \E p \in {"while", "capturing", "dead"} :
                tpc = [t \in Threads |-> IF t = 1 THEN p ELSE "unborn"]

UnitInit ==
    /\ ReqInit
    /\ unit \in Units
    /\ IF unit = "start_auto_capture"
         THEN SacInit /\ selection_index \in Selections
         ELSE AppIdle /\ selection_index = -1
    /\ sac_result = "unset"
    /\ cwh_pc = (IF unit = "capture_window_by_handle" THEN "GetWindowDC" ELSE "idle")
    /\ held = {}
    /\ cwh_result = "unset"
    /\ IF unit = "is_black_image"
         THEN /\ img_array \in Images
              /\ threshold \in Thresholds
              /\ winExists /\ ~iconic /\ winRect = MkRect(0, 0, MaxDim, MaxDim)
         ELSE /\ img_array = <<>>
              /\ threshold = BlackThreshold
    /\ iwv_answers = <<>>
    /\ is_black = "unset"
    /\ ibi_error = FALSE

\* one call is_black_image(image, threshold)
IBI_Call ==
    /\ unit = "is_black_image"
    /\ is_black = "unset"
    /\ \E raises \in BOOLEAN :
         /\ is_black' = BoolStr(is_black_image(img_array, threshold, raises))
         /\ ibi_error' = raises
    /\ UNCHANGED <<winVars, reqAll, appVars, unit, iwv_answers, img_array, threshold,
                   selection_index, sac_result, cwhVars>>

\* one call is_window_valid(hwnd); the OS query may raise
IWV_Call ==
    /\ unit = "is_window_valid"
    /\ Len(iwv_answers) < MaxCalls
    /\ \E raises \in BOOLEAN :
         iwv_answers' = Append(iwv_answers, BoolStr(IsWindowValid(raises)))
    /\ UNCHANGED <<winVars, reqAll, appVars, unit, img_array, threshold, is_black, ibi_error,
                   selection_index, sac_result, cwhVars>>

\* the window is destroyed between two calls
Unit_DestroyWindow ==
    /\ unit # "is_black_image"
    /\ winExists
    /\ winExists' = FALSE
    /\ iwv_answers' = <<>>
    /\ UNCHANGED <<iconic, foreground, winRect, attached, reqAll, appVars, unit, img_array,
                   threshold, is_black, ibi_error, selection_index, sac_result, cwhVars>>

\* ProcessCaptureApp.start_auto_capture with a valid selection: refused while
\* is_auto_capturing, else the flag is set and a new loop thread is started
StartAutoCapture(t) ==
    /\ ~is_auto_capturing
    /\ tpc[t] = "unborn"
    /\ \A u \in Threads : u < t => tpc[u] # "unborn"
    /\ is_auto_capturing' = TRUE
    /\ auto_capture_thread' = t
    /\ tpc' = [tpc EXCEPT ![t] = "while"]
    /\ stopPending' = [u \in Threads |-> FALSE]

\* faulty variant: the flag is set before the selection is checked
SAC_Call_FlagSetFirst ==
    /\ unit = "start_auto_capture"
    /\ sac_result = "unset"
    /\ IF is_auto_capturing
         THEN /\ sac_result' = "False"
              /\ UNCHANGED <<is_auto_capturing, auto_capture_thread, tpc, stopPending>>
       ELSE IF selection_index = -1 \/ selection_index >= MaxCached
         THEN /\ sac_result' = "False"
              /\ is_auto_capturing' = TRUE
              /\ UNCHANGED <<auto_capture_thread, tpc, stopPending>>
         ELSE /\ \E t \in Threads : StartAutoCapture(t)
              /\ sac_result' = "True"
    /\ UNCHANGED <<winVars, reqAll, uiPc, ui_is_capturing, remaining, success, unit,
                   iwv_answers, img_array, threshold, is_black, ibi_error, selection_index,
                   cwhVars>>

\* one call ProcessCaptureApp.start_auto_capture(): refused while
\* is_auto_capturing, refused without a valid selection, else the flag is set
\* and the loop thread is started
SAC_Call ==
    /\ unit = "start_auto_capture"
    /\ sac_result = "unset"
    /\ IF is_auto_capturing \/ selection_index = -1 \/ selection_index >= MaxCached
         THEN /\ sac_result' = "False"
              /\ UNCHANGED <<is_auto_capturing, auto_capture_thread, tpc, stopPending>>
         ELSE /\ \E t \in Threads : StartAutoCapture(t)
              /\ sac_result' = "True"
    /\ UNCHANGED <<winVars, reqAll, uiPc, ui_is_capturing, remaining, success, unit,
                   iwv_answers, img_array, threshold, is_black, ibi_error, selection_index,
                   cwhVars>>

\* capture_window_by_handle, step by step.  The calls that acquire a resource,
\* in the order of the code: the position, what it acquires, the next position
AcquireSteps ==
    <<[at |-> "GetWindowDC", res |-> "hwndDC", to |-> "CreateDCFromHandle"],
      [at |-> "CreateDCFromHandle", res |-> "mfcDC", to |-> "CreateCompatibleDC"],
      [at |-> "CreateCompatibleDC", res |-> "saveDC", to |-> "GetWindowRect"],
      [at |-> "CreateBitmap", res |-> "saveBitMap", to |-> "BitBlt"]>>

\* the order in which both cleanup blocks release
ReleaseOrder == <<"saveBitMap", "saveDC", "mfcDC", "hwndDC">>

\* the three resources held through pywin32 objects; hwndDC is a bare handle
Wrapped == {"mfcDC", "saveDC", "saveBitMap"}

CwhFrame == UNCHANGED <<winVars, reqAll, appVars, unit, iwv_answers, img_array, threshold,
                        is_black, ibi_error, selection_index, sac_result>>

\* GetWindowDC, CreateDCFromHandle, CreateCompatibleDC, CreateBitmap with
\* CreateCompatibleBitmap and SelectObject: the resource is acquired, or the
\* call raises
CWH_Acquire ==
    /\ \E i \in DOMAIN AcquireSteps, raises \in BOOLEAN :
          /\ cwh_pc = AcquireSteps[i].at
          /\ IF raises
               THEN cwh_pc' = "except" /\ UNCHANGED held
               ELSE cwh_pc' = AcquireSteps[i].to /\ held' = held \cup {AcquireSteps[i].res}
    /\ UNCHANGED cwh_result
    /\ CwhFrame

\* win32gui.GetWindowRect(hwnd)
CWH_GetWindowRect ==
    /\ cwh_pc = "GetWindowRect"
    /\ \E raises \in BOOLEAN : cwh_pc' = (IF raises THEN "except" ELSE "CreateBitmap")
    /\ UNCHANGED <<held, cwh_result>>
    /\ CwhFrame

\* result = saveDC.BitBlt(...); if result: read the bits, else: clean up
CWH_BitBlt ==
    /\ cwh_pc = "BitBlt"
    /\ \E out \in {"raises", "copied", "failed"} :
          cwh_pc' = (CASE out = "raises" -> "except"
                       [] out = "copied" -> "read"
                       [] out = "failed" -> "cleanup_none")
    /\ UNCHANGED <<held, cwh_result>>
    /\ CwhFrame

\* GetInfo, GetBitmapBits, Image.frombuffer
CWH_ReadBits ==
    /\ cwh_pc = "read"
    /\ \E raises \in BOOLEAN : cwh_pc' = (IF raises THEN "except" ELSE "cleanup_image")
    /\ UNCHANGED <<held, cwh_result>>
    /\ CwhFrame

\* either cleanup block: DeleteObject, saveDC.DeleteDC, mfcDC.DeleteDC,
\* ReleaseDC, then the return; a call that raises leaves the later ones undone
CWH_Cleanup ==
    /\ cwh_pc \in {"cleanup_image", "cleanup_none"}
    /\ \E n \in 0..Len(ReleaseOrder) :
          /\ held' = held \ {ReleaseOrder[j] : j \in 1..n}
          /\ IF n = Len(ReleaseOrder)
               THEN /\ cwh_pc' = "returned"
                    /\ cwh_result' = (IF cwh_pc = "cleanup_image" THEN "image" ELSE "None")
               ELSE cwh_pc' = "except" /\ UNCHANGED cwh_result
    /\ CwhFrame

\* except Exception: log and return None.  Nothing is released here; the
\* pywin32 objects go out of scope with the frame and may or may not free what
\* they wrap, the bare hwndDC handle is freed by nobody
CWH_Except ==
    /\ cwh_pc = "except"
    /\ held' \in {h \in SUBSET held : held \ Wrapped \subseteq h}
    /\ cwh_pc' = "returned"
    /\ cwh_result' = "None"
    /\ CwhFrame

UnitNext ==
    \/ IBI_Call
    \/ IWV_Call
    \/ Unit_DestroyWindow
    \/ SAC_Call
    \/ CWH_Acquire
    \/ CWH_GetWindowRect
    \/ CWH_BitBlt
    \/ CWH_ReadBits
    \/ CWH_Cleanup
    \/ CWH_Except

UnitSpec == UnitInit /\ [][UnitNext]_vars

----------------------------------------------------------------------------
(* AppSpec: the UI thread and the auto-capture loop threads.  A thread that  *)
(* is inside capture_process_window is at "capturing"; what the request does *)
(* there is what Spec describes.                                             *)

Alive(t) == tpc[t] \notin {"unborn", "dead"}

\* capture button (enabled while ui.is_capturing is false) or double-click on the
\* process list (always bound): capture_single -> capture_single_window ->
\* capture_process_window, all on the UI thread
UI_CaptureSingle ==
    /\ uiPc = "idle"
    /\ \E doubleClick \in BOOLEAN : doubleClick \/ ~ui_is_capturing
    /\ uiPc' = "capturing"
    /\ UNCHANGED <<winVars, reqAll, unitVars, is_auto_capturing, auto_capture_thread,
                   ui_is_capturing, tpc, remaining, stopPending, success>>

\* capture_process_window returns on the UI thread
UI_CaptureDone ==
    /\ uiPc = "capturing"
    /\ uiPc' = "idle"
    /\ UNCHANGED <<winVars, reqAll, unitVars, is_auto_capturing, auto_capture_thread,
                   ui_is_capturing, tpc, remaining, stopPending, success>>

\* start button (enabled while ui.is_capturing is false):
\* ProcessCaptureUI.start_auto_capture -> the start callback
UI_StartAuto ==
    /\ uiPc = "idle"
    /\ ~ui_is_capturing
    /\ IF is_auto_capturing
         THEN UNCHANGED <<is_auto_capturing, auto_capture_thread, tpc, stopPending,
                          ui_is_capturing>>
         ELSE /\ \E t \in Threads : StartAutoCapture(t)
              /\ ui_is_capturing' = TRUE
    /\ UNCHANGED <<winVars, reqAll, unitVars, uiPc, remaining, success>>

\* stop button (enabled while ui.is_capturing is true): stop_auto_capture clears
\* the flag and, if the thread is alive, joins it for at most one second;
\* ProcessCaptureUI.stop_capture then puts the buttons back
UI_Stop ==
    /\ uiPc = "idle"
    /\ ui_is_capturing
    /\ is_auto_capturing' = FALSE
    /\ stopPending' = [t \in Threads |->
                          stopPending[t] \/ (is_auto_capturing /\ tpc[t] \in {"wait", "sleeping"})]
    /\ IF auto_capture_thread # 0 /\ Alive(auto_capture_thread)
         THEN uiPc' = "joining" /\ UNCHANGED ui_is_capturing
         ELSE uiPc' = "idle" /\ ui_is_capturing' = FALSE
    /\ UNCHANGED <<winVars, reqAll, unitVars, auto_capture_thread, tpc, remaining, success>>

\* join(timeout=1) returns: the thread has ended or the second has passed;
\* ProcessCaptureUI.stop_capture then puts the buttons back
UI_JoinReturn ==
    /\ uiPc = "joining"
    /\ uiPc' = "idle"
    /\ ui_is_capturing' = FALSE
    /\ UNCHANGED <<winVars, reqAll, unitVars, is_auto_capturing, auto_capture_thread, tpc,
                   remaining, stopPending, success>>

\* auto_capture_loop: "while self.is_auto_capturing:" -> capture_process_window
Loop_While(t) ==
    /\ tpc[t] = "while"
    /\ tpc' = [tpc EXCEPT ![t] = IF is_auto_capturing THEN "capturing" ELSE "dead"]
    /\ success' = IF is_auto_capturing THEN success ELSE [success EXCEPT ![t] = "unset"]
    /\ UNCHANGED <<winVars, reqAll, unitVars, is_auto_capturing, auto_capture_thread, uiPc,
                   ui_is_capturing, remaining, stopPending>>

\* auto_capture_loop: success = self.capture_process_window(process_info).  A
\* closed window gives False; an exception raised before capture_process_window's
\* try block reaches the loop's except clause, which breaks out of the loop.
Loop_Capture(t) ==
    /\ tpc[t] = "capturing"
    /\ \E raised \in BOOLEAN, ok \in BOOLEAN :
         IF raised
           THEN /\ tpc' = [tpc EXCEPT ![t] = "except"]
                /\ UNCHANGED success
           ELSE LET result == IsWindowValid(FALSE) /\ ok IN
                /\ tpc' = [tpc EXCEPT ![t] = IF result THEN "captured_true"
                                                       ELSE "captured_false"]
                /\ success' = [success EXCEPT ![t] = IF result THEN "True" ELSE "False"]
    /\ UNCHANGED <<winVars, reqAll, unitVars, is_auto_capturing, auto_capture_thread, uiPc,
                   ui_is_capturing, remaining, stopPending>>

\* faulty variant: a failed capture breaks out of the loop
Loop_ReadInterval_BreakOnFailure(t) ==
    /\ tpc[t] \in {"captured_true", "captured_false"}
    /\ \E raised \in BOOLEAN, interval \in Intervals :
         IF raised
           THEN /\ tpc' = [tpc EXCEPT ![t] = "except"]
                /\ UNCHANGED remaining
         ELSE IF tpc[t] = "captured_false"
           THEN /\ tpc' = [tpc EXCEPT ![t] = "dead"]
                /\ UNCHANGED remaining
           ELSE /\ tpc' = [tpc EXCEPT ![t] = "wait"]
                /\ remaining' = [remaining EXCEPT ![t] = interval]
    /\ UNCHANGED <<winVars, reqAll, unitVars, is_auto_capturing, auto_capture_thread, uiPc,
                   ui_is_capturing, stopPending, success>>

\* auto_capture_loop: the status is posted whatever the result, then
\* interval = self.ui.get_capture_interval(); an exception breaks out of the loop
Loop_ReadInterval(t) ==
    /\ tpc[t] \in {"captured_true", "captured_false"}
    /\ \E raised \in BOOLEAN, interval \in Intervals :
         IF raised
           THEN /\ tpc' = [tpc EXCEPT ![t] = "except"]
                /\ UNCHANGED remaining
           ELSE /\ tpc' = [tpc EXCEPT ![t] = "wait"]
                /\ remaining' = [remaining EXCEPT ![t] = interval]
    /\ UNCHANGED <<winVars, reqAll, unitVars, is_auto_capturing, auto_capture_thread, uiPc,
                   ui_is_capturing, stopPending, success>>

\* faulty variant: the wait sleeps the whole interval without looking at the flag
Loop_WaitCheck_IgnoresFlag(t) ==
    /\ tpc[t] = "wait"
    /\ tpc' = [tpc EXCEPT ![t] = IF remaining[t] = 0 THEN "while" ELSE "sleeping"]
    /\ UNCHANGED <<winVars, reqAll, unitVars, is_auto_capturing, auto_capture_thread, uiPc,
                   ui_is_capturing, remaining, stopPending, success>>

\* auto_capture_loop: "for _ in range(interval): if not self.is_auto_capturing:
\* break; time.sleep(1)"
Loop_WaitCheck(t) ==
    /\ tpc[t] = "wait"
    /\ tpc' = [tpc EXCEPT ![t] = IF remaining[t] = 0 \/ ~is_auto_capturing
                                   THEN "while" ELSE "sleeping"]
    /\ UNCHANGED <<winVars, reqAll, unitVars, is_auto_capturing, auto_capture_thread, uiPc,
                   ui_is_capturing, remaining, stopPending, success>>

\* auto_capture_loop: one time.sleep(1) ends
Loop_SleepDone(t) ==
    /\ tpc[t] = "sleeping"
    /\ tpc' = [tpc EXCEPT ![t] = "wait"]
    /\ remaining' = [remaining EXCEPT ![t] = remaining[t] - 1]
    /\ UNCHANGED <<winVars, reqAll, unitVars, is_auto_capturing, auto_capture_thread, uiPc,
                   ui_is_capturing, stopPending, success>>

\* auto_capture_loop: the except clause logs the error, posts the error dialog
\* and breaks out of the loop; the flag is left as it is
Loop_Except(t) ==
    /\ tpc[t] = "except"
    /\ tpc' = [tpc EXCEPT ![t] = "dead"]
    /\ success' = [success EXCEPT ![t] = "unset"]
    /\ UNCHANGED <<winVars, reqAll, unitVars, is_auto_capturing, auto_capture_thread, uiPc,
                   ui_is_capturing, remaining, stopPending>>

LoopStep(t) ==
    \/ Loop_While(t)
    \/ Loop_Capture(t)
    \/ Loop_ReadInterval(t)
    \/ Loop_WaitCheck(t)
    \/ Loop_SleepDone(t)
    \/ Loop_Except(t)

\* the window's owner closes the window; the handle stays invalid from then on
App_CloseWindow ==
    /\ winExists
    /\ winExists' = FALSE
    /\ UNCHANGED <<iconic, foreground, winRect, attached, reqAll, appVars, unitVars>>

AppNext ==
    \/ UI_CaptureSingle
    \/ UI_CaptureDone
    \/ UI_StartAuto
    \/ UI_Stop
    \/ UI_JoinReturn
    \/ \E t \in Threads : LoopStep(t)
    \/ App_CloseWindow

\* the process list holds windows that were visible when it was searched
AppInit == Init /\ winExists /\ ~iconic /\ winRect = MkRect(0, 0, MaxDim, MaxDim)

AppSpec == AppInit /\ [][AppNext]_vars

\* the OS schedules every live thread: a loop thread that can take a step takes it
FairAppSpec == AppSpec /\ \A t \in Threads : WF_vars(LoopStep(t))

----------------------------------------------------------------------------
(* Vocabulary of the properties *)

\* the bitmap's content is black: mean luminance below the threshold
Black(b) == b.lum < BlackThreshold
IsBlackShot(shot) == shot # None /\ Black(shot[1])
IsNonBlackShot(shot) == shot # None /\ ~Black(shot[1])

\* capture_window has returned
CWReturned == log # <<>> /\ log[Len(log)] \in {"success", "fail"}
Succeeded == CWReturned /\ cwResult # None
Failed == CWReturned /\ cwResult = None

\* the request is inside force_activate_window
InForceActivate == pc \in {"fa_raise", "fa_detach"}

Has(e) == \E i \in DOMAIN log : log[i] = e

----------------------------------------------------------------------------
(* Properties of one capture request (Spec) *)

\* C1: whenever the request is not inside force_activate_window - in particular
\* after force_activate_window has returned, on any exit path - the caller's
\* input queue is not attached to the target window's thread.
C1_DetachedOnEveryExit == ~InForceActivate => ~attached

\* C2: a Smart request that went as far as forced activation never returns a
\* black bitmap as its successful result: the capture taken after forced
\* activation is validated, and a failed forced activation does not let the
\* black capture of the basic tier through.
C2_SmartForcedResultNotBlack ==
    (method = "smart" /\ Has("force") /\ Succeeded) => ~Black(cwResult[1])

\* C3: for method Smart, once the Background capture has produced a non-black
\* bitmap, no basic and no forced activation has been or is ever called in the
\* request (capture_process_window included), and the request returns that
\* bitmap.
C3_SmartBackgroundSuccessNoActivation ==
    (method = "smart" /\ IsNonBlackShot(bgShot)) =>
        /\ ~Has("activate")
        /\ ~Has("force")
        /\ nAttach = 0
        /\ ~foreground
        /\ CWReturned => cwResult = bgShot

C3_Witness ==
    /\ method = "smart" /\ entry = "app" /\ pc = "done"
    /\ IsNonBlackShot(bgShot) /\ cwResult = bgShot /\ cpwResult = "True"

C5_SmartMinimizedScenario ==
    (method = "smart" /\ wasIconic /\ IsBlackShot(bgShot) /\ IsNonBlackShot(basicShot)
                      /\ CWReturned) =>
        /\ log = <<"restore_noactivate", "capture_bg", "black", "activate",
                   "capture_basic", "nonblack", "success">>
        /\ cwResult = basicShot
        /\ Count("force") = 0

C5_Witness ==
    /\ method = "smart" /\ entry = "app" /\ wasIconic /\ pc = "done"
    /\ IsBlackShot(bgShot) /\ IsNonBlackShot(basicShot) /\ cwResult = basicShot

\* C6: for method Smart with a process manager, on a window whose rect resolves
\* each time it is queried, a request that ends in failure has attempted the
\* whole chain: the Background capture, basic activation with a capture, and
\* forced activation with a capture.
C6_SmartFailsOnlyAfterWholeChain ==
    (method = "smart" /\ pm /\ rect # None /\ ~SizeInvalid(rect[1]) /\ fbRect # None
                      /\ Failed) =>
        /\ Has("capture_bg")
        /\ Has("activate") /\ Has("capture_basic")
        /\ Has("force") /\ Has("capture_forced")

\* C7: every call of forced activation is preceded, in the same request, by a
\* basic activation and by a capture taken after it whose verdict was black or
\* missing.
C7_ForcedOnlyAfterInvalidBasicCapture ==
    \A i \in DOMAIN log :
        log[i] = "force" =>
            \E j \in DOMAIN log, k \in DOMAIN log :
                /\ j < k /\ k + 1 < i
                /\ log[j] = "activate"
                /\ log[k] = "capture_basic"
                /\ log[k + 1] \in {"black", "missing"}

C7_Witness == Has("force") /\ pc = "done"

----------------------------------------------------------------------------
(* Properties of the application's threads (AppSpec, FairAppSpec) *)

\* the threads that are inside capture_process_window for the handle
InsideCapture ==
    {t \in Threads : tpc[t] = "capturing"} \cup (IF uiPc = "capturing" THEN {0} ELSE {})

\* C8: at no time are two threads inside capture_process_window for the handle.
C8_OneCaptureAtATime == Cardinality(InsideCapture) <= 1

\* C9: after stop_auto_capture has cleared the flag while a loop thread was
\* waiting between captures, and as long as the flag is not set again, the only
\* steps that thread takes are: end the sleep increment in progress, break out
\* of the wait, leave the while loop and end.  It begins no further sleep
\* increment and no further capture.
C9_StopHonoredWithinOneIncrement ==
    [][\A t \in Threads :
          (stopPending[t] /\ stopPending'[t] /\ tpc'[t] # tpc[t]) =>
              \/ tpc[t] = "sleeping" /\ tpc'[t] = "wait"
              \/ tpc[t] = "wait" /\ tpc'[t] = "while"
              \/ tpc[t] = "while" /\ tpc'[t] = "dead"]_vars

\* the loop thread has ended after such a stop with part of its interval unslept
C9_Witness ==
    \E t \in Threads : stopPending[t] /\ tpc[t] = "dead" /\ remaining[t] > 0

\* C10: once the window is closed, a running auto-capture loop eventually stops.
C10_LoopStopsWhenWindowInvalid ==
    \A t \in Threads : (~winExists /\ Alive(t)) ~> (tpc[t] = "dead")

\* C11: in the auto-capture loop, after a cycle whose capture returned False
\* while the window is valid, and as long as the flag stays set, the thread
\* does not leave the loop because of that result: it reads the interval, waits
\* every increment of it, and goes through the while condition into the next
\* capture.  (Only the except clause ends the loop, when reading the interval
\* raises, whatever the capture returned.)
C11_FailedCycleContinues ==
    [][\A t \in Threads :
          (success[t] = "False" /\ winExists /\ is_auto_capturing /\ is_auto_capturing'
              /\ tpc'[t] # tpc[t]) =>
              \/ tpc[t] = "captured_false" /\ tpc'[t] \in {"wait", "except"}
              \/ tpc[t] = "wait" /\ remaining[t] > 0 /\ tpc'[t] = "sleeping"
              \/ tpc[t] = "wait" /\ remaining[t] = 0 /\ tpc'[t] = "while"
              \/ tpc[t] = "sleeping" /\ tpc'[t] = "wait"
              \/ tpc[t] = "while" /\ tpc'[t] = "capturing"
              \/ tpc[t] \in {"capturing", "except"}]_vars

\* a loop thread is in the capture of the cycle that follows a failed cycle
C11_Witness ==
    \E t \in Threads :
        /\ tpc[t] = "capturing" /\ success[t] = "False"
        /\ winExists /\ is_auto_capturing /\ auto_capture_thread = t

----------------------------------------------------------------------------
(* Further properties of one capture request (Spec) *)

\* the events that record a capture being taken
CaptureEvents ==
    {"capture_standard", "capture_handle", "capture_bg", "capture_basic", "capture_forced"}

\* C12: for method Auto no Background capture is attempted, and the first
\* capture of the request is the one taken after basic activation.
C12_AutoSkipsBackgroundProbe ==
    method = "auto" =>
        /\ ~Has("capture_bg")
        /\ \A i \in DOMAIN log :
              (log[i] \in CaptureEvents /\ \A j \in 1..(i - 1) : log[j] \notin CaptureEvents)
                  => log[i] = "capture_basic"


\* C13: a Background request never calls basic or forced activation and never
\* makes the target the foreground window, and it returns the failure value
\* whenever the handle capture is missing or black.
C13_BackgroundNeverActivatesNorReturnsBlack ==
    method = "background" =>
        /\ ~Has("activate")
        /\ ~Has("force")
        /\ nAttach = 0
        /\ ~foreground
        /\ (CWReturned /\ Has("capture_bg") /\ (bgShot = None \/ IsBlackShot(bgShot)))
               => cwResult = None


\* the capture event of an explicit single-strategy method
OwnCapture(m) == IF m = "standard" THEN "capture_standard" ELSE "capture_handle"

\* the request ran no capture strategy but its own, and that one at most once
OnlyOwnStrategy ==
    /\ \A i \in DOMAIN log : log[i] \in CaptureEvents => log[i] = OwnCapture(method)
    /\ Count(OwnCapture(method)) <= 1
    /\ ~Has("restore_noactivate")

\* C14 (as claimed): a Standard or Handle request runs only its own capture
\* strategy and performs no basic and no forced activation, whether it entered
\* through capture_window or through capture_process_window.
C14_SingleStrategyNoActivation ==
    method \in {"standard", "handle"} =>
        /\ OnlyOwnStrategy
        /\ ~Has("activate")
        /\ ~Has("force") /\ nAttach = 0

\* C14 (amended): a Standard or Handle request runs only its own capture
\* strategy and no forced activation; capture_window performs no activation
\* at all, and capture_process_window performs exactly one basic activation,
\* before capture_window is called.
C14_SingleStrategyOneActivationInApp ==
    method \in {"standard", "handle"} =>
        /\ OnlyOwnStrategy
        /\ ~Has("force") /\ nAttach = 0
        /\ entry = "engine" => ~Has("activate")
        /\ entry = "app" =>
              /\ Count("activate") <= 1
              /\ \A i \in DOMAIN log : log[i] = "activate" => i = 1
              /\ pc \in {"cw_rect", "std_grab", "hnd_grab", "cpw_result"} => Has("activate")
              /\ (pc = "done" /\ ~Has("window_closed")) => Has("activate")

C14_Witness ==
    /\ method = "handle" /\ entry = "app" /\ pc = "done" /\ cpwResult = "True"
    /\ log = <<"activate", "capture_handle", "success">>


\* C15: a Standard or Handle request whose strategy produced a black bitmap
\* (mean luminance below the threshold) does not report success: capture_window
\* does not return that bitmap, and capture_process_window does not return True.
C15_ExplicitMethodBlackIsFailure ==
    (method \in {"standard", "handle"} /\ IsBlackShot(screenshot)) =>
        /\ CWReturned => cwResult = None
        /\ cpwResult # "True"


\* width and height of a rect and of a bitmap
RectSize(r) == <<r.right - r.left, r.bottom - r.top>>
ShotSize(b) == <<b.w, b.h>>

\* C16: in the Smart chain, the capture taken after basic activation and the
\* capture taken after forced activation have the size of the window's rect
\* as it was when that activation returned, not of a rect queried before it.
C16_CaptureUsesRectAfterActivation ==
    method = "smart" =>
        /\ (pc = "fb_validate" /\ basicShot # None)
               => ShotSize(basicShot[1]) = RectSize(actRect[1])
        /\ (pc = "fb_return" /\ forcedShot # None)
               => ShotSize(forcedShot[1]) = RectSize(actRect[1])


\* the positions at which a strategy takes its capture
GrabPcs == {"std_grab", "hnd_grab", "bg_grab", "fb_grab1", "fb_grab2"}

\* C17: whatever the method, a capture attempted after the window handle has
\* become invalid produces the failure value, not a bitmap (and so a Standard or
\* Handle request returns the failure value); nothing but a value ever leaves
\* capture_window.
C17_InvalidHandleYieldsFailure ==
    [][(pc \in GrabPcs /\ pc' # pc /\ ~winExists) =>
          /\ screenshot' = None
          /\ pc \in {"std_grab", "hnd_grab"} => cwResult' = None]_vars


\* C18: when the rect query at the start of capture_window fails, the request
\* ends in failure at once, for every method: capture_window returns the
\* failure value having run no capture strategy and no activation (the only
\* activation of the request is the one capture_process_window made before
\* calling capture_window), and capture_process_window returns False.
C18_MissingRectFailsAtOnce ==
    (CWReturned /\ rect = None) =>
        /\ cwResult = None
        /\ log \in {<<"fail">>, <<"activate", "fail">>}
        /\ entry = "engine" => log = <<"fail">>
        /\ nAttach = 0 /\ ~attached
        /\ screenshot = None /\ fbRect = None
        /\ cpwResult # "True"

C18_Witness ==
    /\ CWReturned /\ rect = None /\ pc = "done" /\ entry = "app" /\ method = "smart"
    /\ ~winExists /\ cpwResult = "False"


----------------------------------------------------------------------------
(* Properties of the rect check (RectSpec) *)

\* the request is inside a strategy that capture_window invoked
InStrategy ==
    pc \in {"std_grab", "hnd_grab", "bg_restore", "bg_grab", "bg_validate", "bg_return",
            "fb_rect", "fb_activate", "fb_grab1", "fb_validate", "fa_attach", "fa_raise",
            "fa_detach", "fb_grab2", "fb_return"}

\* the rect has an empty or negative side
Degenerate(r) == r.right <= r.left \/ r.bottom <= r.top

\* C19: capture_window rejects every resolved rect with right <= left or
\* bottom <= top: it returns the failure value and no strategy has run; so
\* whenever a strategy invoked by capture_window is running, the resolved rect
\* has right > left and bottom > top.
C19_DegenerateRectRejected ==
    /\ InStrategy => (rect # None /\ rect[1].right > rect[1].left
                                  /\ rect[1].bottom > rect[1].top)
    /\ (rect # None /\ Degenerate(rect[1])) =>
          /\ CWReturned /\ cwResult = None
          /\ log \in {<<"fail">>, <<"activate", "fail">>}
          /\ screenshot = None /\ nAttach = 0

\* a rect with a positive width and a negative height was rejected
C19_Witness ==
    /\ rect # None /\ rect[1].right > rect[1].left /\ rect[1].bottom < rect[1].top
    /\ pc = "done" /\ cwResult = None /\ method = "handle"


----------------------------------------------------------------------------
(* Properties of the method selector (Spec) *)

\* C20: for a method selector outside the five recognized ones, on a window
\* whose rect resolved to a valid rect, capture_window runs no strategy and no
\* activation, and what it returns is not the value a recognized method returns
\* when its capture failed (None).
C20_UnknownMethodDistinctFromFailure ==
    (method \notin UiMethods /\ CWReturned /\ rect # None /\ ~Degenerate(rect[1])) =>
        /\ \A i \in DOMAIN log : log[i] \notin CaptureEvents
        /\ ~Has("activate") /\ ~Has("force") /\ ~Has("restore_noactivate")
        /\ cwResult # None


----------------------------------------------------------------------------
(* Properties of capture_process_window's validity check (Spec) *)

\* C21: when capture_process_window is called for a handle whose window no
\* longer exists, the validity check ends the request at once: it returns
\* False, and no activation and no capture strategy has run or runs afterwards
\* (the request is not retried).
C21_ClosedWindowFailsAtOnce ==
    [][/\ (pc = "cpw_valid" /\ ~winExists /\ pc' # pc) =>
             /\ pc' = "done"
             /\ cpwResult' = "False"
             /\ log' = <<"window_closed">>
             /\ UNCHANGED <<winVars, rect, fbRect, screenshot, cwResult, nAttach, nDetach>>
       /\ Has("window_closed") => UNCHANGED <<pc, log, cpwResult, winVars>>]_vars

C21_Witness ==
    /\ entry = "app" /\ pc = "done" /\ ~winExists /\ envSteps = 0
    /\ log = <<"window_closed">> /\ cpwResult = "False" /\ cwResult = None


----------------------------------------------------------------------------
(* Properties of the bitmap's geometry (Spec) *)

\* C22: a successful Standard or Handle capture returns a bitmap whose width
\* and height are those of the rect capture_window resolved at the start of the
\* request, also when the window's geometry changed after the rect was resolved.
C22_BitmapHasSizeOfResolvedRect ==
    (method \in {"standard", "handle"} /\ Succeeded) =>
        ShotSize(cwResult[1]) = RectSize(rect[1])


----------------------------------------------------------------------------
(* Properties of single calls (UnitSpec) *)

\* by how much the channel values fall short of the threshold in total: it is
\* positive exactly when their mean is strictly below the threshold
Deficit == SumSeq([i \in DOMAIN img_array |-> threshold - img_array[i]])

\* C23: when is_black_image has computed the mean, it returns true exactly when
\* the mean of all channel values is strictly below the threshold: true for an
\* all-zero bitmap, false for a bitmap whose values are all above the
\* threshold, false when the mean equals the threshold.
C23_BlackIffMeanBelowThreshold ==
    (is_black # "unset" /\ ~ibi_error) =>
        /\ is_black = "True" <=> Deficit > 0
        /\ (\A i \in DOMAIN img_array : img_array[i] = 0) => is_black = "True"
        /\ (\A i \in DOMAIN img_array : img_array[i] > threshold) => is_black = "False"
        /\ Deficit = 0 => is_black = "False"

\* a bitmap of unequal values whose mean equals the default threshold was
\* found not black
C23_Witness ==
    /\ is_black = "False" /\ ~ibi_error /\ threshold = BlackThreshold
    /\ Deficit = 0 /\ \E i \in DOMAIN img_array : img_array[i] < threshold


\* C24: is_window_valid answers False for a window that has been destroyed, on
\* every call and also when the OS query raises (so repeated calls on a
\* destroyed window agree); every call returns a bool, no exception escapes;
\* and True is only ever answered for a window that exists.
C24_DestroyedWindowIsInvalid ==
    \A i \in DOMAIN iwv_answers :
        /\ iwv_answers[i] \in {"True", "False"}
        /\ ~winExists => iwv_answers[i] = "False"
        /\ iwv_answers[i] = "True" => winExists

\* two calls in a row on a destroyed window both answered False
C24_Witness ==
    /\ unit = "is_window_valid" /\ ~winExists
    /\ iwv_answers = <<"False", "False">>


----------------------------------------------------------------------------
(* Further properties of the application's threads (AppSpec) *)

\* C25: the UI thread is never inside capture_process_window: every capture,
\* single or periodic, runs on another thread.
C25_NoCaptureOnUiThread == uiPc # "capturing"


\* C26: only the thread started by the latest start_auto_capture keeps looping:
\* a loop thread that stop_auto_capture has given up joining never passes the
\* while condition into another capture once a new thread has been started, so
\* no two threads are left looping.
C26_SupersededThreadStopsLooping ==
    [][\A t \in Threads :
          (tpc[t] = "while" /\ tpc'[t] = "capturing") => t = auto_capture_thread]_vars


\* C27: a call of start_auto_capture made while is_auto_capturing is true
\* returns False and changes nothing: no thread is created, is_auto_capturing
\* and auto_capture_thread keep their values.  A call made without a valid
\* selection (none, or an index beyond cached_processes) returns False too and
\* leaves the flag as it was (false, when it was false) with no thread started.
C27_RefusedStartChangesNothing ==
    [][(unit = "start_auto_capture" /\ sac_result = "unset" /\ sac_result' # "unset") =>
         /\ is_auto_capturing =>
              /\ sac_result' = "False"
              /\ UNCHANGED <<is_auto_capturing, auto_capture_thread, tpc>>
         /\ (selection_index = -1 \/ selection_index >= MaxCached) =>
              /\ sac_result' = "False"
              /\ UNCHANGED <<is_auto_capturing, auto_capture_thread, tpc>>
         /\ sac_result' = "False" => UNCHANGED appVars]_vars

\* a start refused only because of the selection: the flag is still false and
\* no thread was born
C27_Witness ==
    /\ unit = "start_auto_capture" /\ sac_result = "False"
    /\ selection_index = MaxCached
    /\ ~is_auto_capturing /\ auto_capture_thread = 0
    /\ \A t \in Threads : tpc[t] = "unborn"


\* C28: whenever the loop thread that auto_capture_thread refers to has
\* terminated, is_auto_capturing is false; in particular the flag does not
\* stay true after the loop left through its exception handler.
C28_TerminatedLoopClearsFlag ==
    (auto_capture_thread # 0 /\ tpc[auto_capture_thread] = "dead") => ~is_auto_capturing


\* C29: once capture_window_by_handle has returned (a bitmap, None after a
\* failed block copy, or None after an OS call raised), every resource the
\* call acquired (window device context, memory device contexts, offscreen
\* bitmap) has been released.
C29_HandleCaptureReleasesEverything ==
    cwh_pc = "returned" => held = {}


\* C30: when the black-frame check itself failed (is_black_image raised
\* internally), the bitmap it was given is not accepted: a Background or Smart
\* request whose latest check failed returns the failure value, never the
\* unvalidated bitmap as a success.
C30_UnvalidatedBitmapNotAccepted ==
    (method \in {"background", "smart"} /\ CWReturned /\ ibi_error) => cwResult = None

=============================================================================
